---- MODULE Spec2Model ----
(***************************************************************************)
(* Model of neurostack/data_streams/data_stream.py: the DataStream class,  *)
(* a dict of named channels, each a list of [timestamp, value] samples,    *)
(* with its channel management, append, removal and time-range queries.    *)
(*                                                                         *)
(* A Python dict keeps insertion order, so `channels` is a sequence of     *)
(* [key, val] entries with unique keys.  Python's None is the empty tuple  *)
(* and a present value x is the one-element tuple <<x>>, so that an empty  *)
(* list (a channel without samples) is not None.  A sample is the pair     *)
(* <<timestamp, value>>; the code reads the timestamp as data[0].          *)
(*                                                                         *)
(* Every method is an operator from the dict (and the arguments) to an     *)
(* outcome: the dict after the call, the exception raised ("" when the     *)
(* call returns), the value returned and the message printed.  Each action *)
(* is one call by a client and records the call and its outcome in `last`  *)
(* (read as op, args, exc, printed and ret), and the dict the call found   *)
(* in `before`.                                                            *)
(*                                                                         *)
(* lsl_start runs _record_lsl_data_indefinitely in a thread of its own.    *)
(* `threads` holds one record per thread started, with the position of the *)
(* thread in that method; a step of a thread is one read or write of the   *)
(* DataStream it shares with the client and with the other threads, since  *)
(* the interpreter can switch threads between any two of them.  The LSL    *)
(* inlet is the source of the samples: `pulls` is the history of what      *)
(* pull_sample and time_correction returned.                               *)
(***************************************************************************)
EXTENDS Integers, Sequences, FiniteSets, TLC

\* Bounds of the model.
MaxSamples == 3
MaxTime == 2
MaxStarts == 2
MaxPulls == 2

Names == {"a", "b"}
\* the code stores a sample's value and never reads it: one value stands for all
Values == {"v"}
Times == 0..MaxTime
Samples == {<<t, v>> : t \in Times, v \in Values}

None == <<>>
Some(x) == <<x>>

StartTimes == {None} \cup {Some(t) : t \in 0..(MaxTime + 1)}
Durations == {None} \cup {Some(d) : d \in 0..MaxTime}
NameLists == {<<n>> : n \in Names} \cup {<<n, m>> : n \in Names, m \in Names}

\* the channel labels of the EEG stream, in the order of its channels
Advertised == <<"a", "b">>
\* what the inlet can return: the values of one sample, one per channel (the
\* code stores them and never reads them, so each channel has one value),
PulledSamples == {<<"x", "y">>}
\* and the time corrections
Corrections == {0, 1}

VARIABLES
    channels,   \* self.channels
    before,     \* history: self.channels as it was before the last call
    appended,   \* history: per name, the samples given to add_data since the
                \* channel was created and not taken out by remove_data
    last,       \* the last call and its outcome
    eeg,        \* the attributes self._eeg_* of the DataStream
    threads,    \* the threads started by lsl_start, in the order of their start
    pulls       \* history: what the inlet returned, pull after pull

\* the last call: the method called,
op == last.op
\* its arguments,
args == last.args
\* the exception it raised ("" when it returned),
exc == last.exc
\* the message it printed ("" when it printed nothing)
printed == last.printed
\* and the value it returned
ret == last.ret

\* self._eeg_thread: None or the number of a thread
eeg_thread == eeg.thread
\* self._eeg_thread_active
eeg_thread_active == eeg.thread_active
\* self._eeg_inlet: None or the inlet
eeg_inlet == eeg.inlet
\* self._eeg_channel_names: None or the list of labels
eeg_channel_names == eeg.channel_names

lslVars == <<eeg, threads, pulls>>

vars == <<channels, before, appended, last, eeg, threads, pulls>>

----------------------------------------------------------------------------
\* dict operations

\* list(d.keys())
dict_keys(d) == [i \in DOMAIN d |-> d[i].key]

dict_has(d, k) == \E i \in DOMAIN d : d[i].key = k

\* d[k], for a key of d
dict_item(d, k) == d[CHOOSE i \in DOMAIN d : d[i].key = k].val

\* d.get(k): None when k is no key of d
dict_get(d, k) == IF dict_has(d, k) THEN Some(dict_item(d, k)) ELSE None

\* d[k] = v: in place for a key of d, at the end for a new key
dict_set(d, k, v) ==
    IF dict_has(d, k)
    THEN [i \in DOMAIN d |-> IF d[i].key = k THEN [key |-> k, val |-> v] ELSE d[i]]
    ELSE Append(d, [key |-> k, val |-> v])

\* d.pop(k), for a key of d
dict_pop(d, k) == SelectSeq(d, LAMBDA e : e.key # k)

\* outcomes of a call
Return(chs, v) == [channels |-> chs, exc |-> "", ret |-> v, printed |-> ""]
Report(chs, msg) == [channels |-> chs, exc |-> "", ret |-> None, printed |-> msg]
Raise(chs, e) == [channels |-> chs, exc |-> e, ret |-> None, printed |-> ""]

----------------------------------------------------------------------------
\* list operations

\* l[start:end] for 0 <= start and end <= len(l), indices counted from 0
slice(l, start, end) == SubSeq(l, start + 1, end)

\* the index (from 1) of the first element of l equal to x, 0 when there is none
RECURSIVE list_index(_, _, _)
list_index(l, x, i) ==
    IF i > Len(l) THEN 0
    ELSE IF l[i] = x THEN i
    ELSE list_index(l, x, i + 1)

\* l without its element at index i (from 1)
list_del(l, i) == SubSeq(l, 1, i - 1) \o SubSeq(l, i + 1, Len(l))

----------------------------------------------------------------------------
\* DataStream: channel management

\* mutant: the channel is set to [] whether or not it exists
add_channel_overwrite(chs, name) == Return(dict_set(chs, name, <<>>), None)

add_channel(chs, name) ==
    IF dict_get(chs, name) # None
    THEN Report(chs, "already exists")
    ELSE Return(dict_set(chs, name, <<>>), None)

\* mutant: the channel's samples are dropped and its key is kept
remove_channel_clear(chs, name) ==
    IF dict_get(chs, name) = None
    THEN Report(chs, "does not exist")
    ELSE Return(dict_set(chs, name, <<>>), None)

remove_channel(chs, name) ==
    IF dict_get(chs, name) = None
    THEN Report(chs, "does not exist")
    ELSE Return(dict_pop(chs, name), None)

close(chs) == Return(<<>>, None)

list_channels(chs) == Return(chs, dict_keys(chs))

----------------------------------------------------------------------------
\* DataStream: data

\* mutant: the sample is put in front of the list
add_data_front(chs, channel, data) ==
    IF dict_get(chs, channel) # None
    THEN Return(dict_set(chs, channel, <<data>> \o dict_item(chs, channel)), None)
    ELSE Report(chs, "does not exist")

\* mutant: a missing channel is created (setdefault)
add_data_autocreate(chs, channel, data) ==
    IF dict_get(chs, channel) # None
    THEN Return(dict_set(chs, channel, Append(dict_item(chs, channel), data)), None)
    ELSE Return(dict_set(chs, channel, <<data>>), None)

add_data(chs, channel, data) ==
    IF dict_get(chs, channel) # None
    THEN Return(dict_set(chs, channel, Append(dict_item(chs, channel), data)), None)
    ELSE Report(chs, "does not exist")

\* list.remove raises ValueError when data is not in the list; the handler's
\* `raise (ValueError, msg)` raises a tuple, which Python 3 answers with a
\* TypeError.
remove_data(chs, channel, data) ==
    IF dict_get(chs, channel) # None
    THEN LET l == dict_item(chs, channel)
             i == list_index(l, data, 1)
         IN  IF i = 0
             THEN Raise(chs, "TypeError")
             ELSE Return(dict_set(chs, channel, list_del(l, i)), None)
    ELSE Report(chs, "does not exist")

\* mutant: the answer is whether the channel exists
has_data_exists(chs, channel) == Return(chs, dict_has(chs, channel))

\* self.channels.get(channel, []): the list of the channel, [] without one
has_data(chs, channel) ==
    LET l == IF dict_has(chs, channel) THEN dict_item(chs, channel) ELSE <<>>
    IN  Return(chs, ~(Len(l) = 0))

----------------------------------------------------------------------------
\* DataStream.get_data

\* mutant: the loop does not stop at the end of the list
RECURSIVE find_start_unchecked(_, _, _)
find_start_unchecked(l, start_time, start) ==
    IF start >= Len(l) THEN [kind |-> "IndexError", start |-> start]
    ELSE IF start_time > l[start + 1][1]
         THEN find_start_unchecked(l, start_time, start + 1)
         ELSE [kind |-> "found", start |-> start]

\* The loop that finds the start index (counted from 0): reading l[start]
\* raises IndexError when start is no index of l, which happens only for an
\* empty list; running off the end returns [].
RECURSIVE find_start(_, _, _)
find_start(l, start_time, start) ==
    IF start >= Len(l) THEN [kind |-> "IndexError", start |-> start]
    ELSE IF start_time > l[start + 1][1]
         THEN IF start + 1 = Len(l)
              THEN [kind |-> "empty", start |-> start + 1]
              ELSE find_start(l, start_time, start + 1)
         ELSE [kind |-> "found", start |-> start]

\* mutant: the stop time is part of the range (>= for >)
RECURSIVE find_end_inclusive(_, _, _)
find_end_inclusive(l, stop_time, end) ==
    IF end < Len(l) /\ stop_time >= l[end + 1][1]
    THEN find_end_inclusive(l, stop_time, end + 1)
    ELSE end

\* The loop that finds the stop index (counted from 0).
RECURSIVE find_end(_, _, _)
find_end(l, stop_time, end) ==
    IF end < Len(l) /\ stop_time > l[end + 1][1]
    THEN find_end(l, stop_time, end + 1)
    ELSE end

\* mutant: a missing channel is read as an empty one (channels.get(channel, []))
get_data_single_default(chs, channel, start_time, duration) ==
    LET l == IF dict_has(chs, channel) THEN dict_item(chs, channel) ELSE <<>> IN
    IF start_time = None THEN Return(chs, l)
    ELSE LET s == find_start(l, start_time[1], 0) IN
         IF s.kind = "IndexError" THEN Raise(chs, "IndexError")
         ELSE IF s.kind = "empty" THEN Return(chs, <<>>)
         ELSE IF duration = None THEN Return(chs, slice(l, s.start, Len(l)))
         ELSE Return(chs, slice(l, s.start,
                                find_end(l, start_time[1] + duration[1], s.start)))

\* get_data with one channel name: start_time and duration are None or Some(n)
get_data_single(chs, channel, start_time, duration) ==
    IF dict_get(chs, channel) = None THEN Raise(chs, "Exception")
    ELSE LET l == dict_item(chs, channel) IN
         IF start_time = None THEN Return(chs, l)
         ELSE LET s == find_start(l, start_time[1], 0) IN
              IF s.kind = "IndexError" THEN Raise(chs, "IndexError")
              ELSE IF s.kind = "empty" THEN Return(chs, <<>>)
              ELSE IF duration = None THEN Return(chs, slice(l, s.start, Len(l)))
              ELSE Return(chs, slice(l, s.start,
                                     find_end(l, start_time[1] + duration[1], s.start)))

\* get_data with a list of channel names: the loop over the list, which an
\* exception of the single-channel call leaves
RECURSIVE get_data_loop(_, _, _, _, _)
get_data_loop(chs, names, start_time, duration, return_data) ==
    IF names = <<>> THEN Return(chs, return_data)
    ELSE LET r == get_data_single(chs, Head(names), start_time, duration) IN
         IF r.exc # "" THEN r
         ELSE get_data_loop(chs, Tail(names), start_time, duration,
                            dict_set(return_data, Head(names), r.ret))

get_data_list(chs, names, start_time, duration) ==
    get_data_loop(chs, names, start_time, duration, <<>>)

----------------------------------------------------------------------------
\* DataStream.get_latest_data

\* mutant: the first sample is returned ([0] for [-1])
get_latest_data_first(chs, channel) ==
    IF ~dict_has(chs, channel) THEN Raise(chs, "KeyError")
    ELSE LET l == dict_item(chs, channel) IN
         IF Len(l) = 0 THEN Raise(chs, "IndexError")
         ELSE Return(chs, l[1])

\* self.channels[channel][-1]
get_latest_data_single(chs, channel) ==
    IF ~dict_has(chs, channel) THEN Raise(chs, "KeyError")
    ELSE LET l == dict_item(chs, channel) IN
         IF Len(l) = 0 THEN Raise(chs, "IndexError")
         ELSE Return(chs, l[Len(l)])

RECURSIVE get_latest_data_loop(_, _, _, _)
get_latest_data_loop(chs, names, return_data, msg) ==
    IF names = <<>>
    THEN [channels |-> chs, exc |-> "", ret |-> return_data, printed |-> msg]
    ELSE LET channel == Head(names) IN
         IF dict_get(chs, channel) # None
         THEN IF dict_item(chs, channel) = <<>>
              THEN get_latest_data_loop(chs, Tail(names),
                                        dict_set(return_data, channel, <<>>), msg)
              ELSE LET r == get_latest_data_single(chs, channel) IN
                   IF r.exc # "" THEN r
                   ELSE get_latest_data_loop(chs, Tail(names),
                                             dict_set(return_data, channel, r.ret),
                                             msg)
         ELSE get_latest_data_loop(chs, Tail(names), return_data, "does not exist")

get_latest_data_list(chs, names) == get_latest_data_loop(chs, names, <<>>, "")

----------------------------------------------------------------------------
\* The state machine: a client calls the methods of one DataStream.

\* the number of samples the store holds
RECURSIVE total_samples(_)
total_samples(chs) ==
    IF chs = <<>> THEN 0 ELSE Len(Head(chs).val) + total_samples(Tail(chs))

\* DataStream.__init__
Init ==
    /\ channels = <<>>
    /\ before = <<>>
    /\ last = [op |-> "__init__", args |-> <<>>, exc |-> "", printed |-> "", ret |-> None]
    /\ appended = [n \in Names |-> <<>>]
    /\ eeg = [thread |-> None, thread_active |-> FALSE,
              inlet |-> None, channel_names |-> None]
    /\ threads = <<>>
    /\ pulls = <<>>

\* what a step leaves in the variables of the last call
Record(name, arguments, o) ==
    /\ channels' = o.channels
    /\ before' = channels
    /\ last' = [op |-> name, args |-> arguments,
                exc |-> o.exc, printed |-> o.printed, ret |-> o.ret]

\* the call of a method of the store, with the arguments given and the
\* outcome o: it touches self.channels only
Call(name, arguments, o) ==
    /\ Record(name, arguments, o)
    /\ UNCHANGED lslVars

AddChannel ==
    \E name \in Names :
        /\ Call("add_channel", <<name>>, add_channel(channels, name))
        /\ appended' = IF dict_has(channels, name) THEN appended
                       ELSE [appended EXCEPT ![name] = <<>>]

RemoveChannel ==
    \E name \in Names :
        /\ Call("remove_channel", <<name>>, remove_channel(channels, name))
        /\ appended' = [appended EXCEPT ![name] = <<>>]

Close ==
    /\ Call("close", <<>>, close(channels))
    /\ appended' = [n \in Names |-> <<>>]

ListChannels ==
    /\ Call("list_channels", <<>>, list_channels(channels))
    /\ UNCHANGED appended

AddData ==
    \E channel \in Names, data \in Samples :
        /\ dict_has(channels, channel) => total_samples(channels) < MaxSamples
        /\ Call("add_data", <<channel, data>>, add_data(channels, channel, data))
        /\ appended' = IF dict_has(channels, channel)
                       THEN [appended EXCEPT ![channel] = Append(@, data)]
                       ELSE appended

RemoveData ==
    \E channel \in Names, data \in Samples :
        /\ Call("remove_data", <<channel, data>>, remove_data(channels, channel, data))
        /\ appended' = IF list_index(appended[channel], data, 1) = 0 THEN appended
                       ELSE [appended EXCEPT ![channel] =
                                 list_del(@, list_index(@, data, 1))]

HasData ==
    \E channel \in Names :
        /\ Call("has_data", <<channel>>, has_data(channels, channel))
        /\ UNCHANGED appended

\* Without a start time the duration is not read: None stands for all.
GetData ==
    \E channel \in Names, start_time \in StartTimes, duration \in Durations :
        /\ start_time = None => duration = None
        /\ Call("get_data", <<channel, start_time, duration>>,
                get_data_single(channels, channel, start_time, duration))
        /\ UNCHANGED appended

GetDataList ==
    \E names \in NameLists, start_time \in StartTimes, duration \in Durations :
        /\ start_time = None => duration = None
        /\ Call("get_data_list", <<names, start_time, duration>>,
                get_data_list(channels, names, start_time, duration))
        /\ UNCHANGED appended

GetLatestData ==
    \E channel \in Names :
        /\ Call("get_latest_data", <<channel>>, get_latest_data_single(channels, channel))
        /\ UNCHANGED appended

GetLatestDataList ==
    \E names \in NameLists :
        /\ Call("get_latest_data_list", <<names>>, get_latest_data_list(channels, names))
        /\ UNCHANGED appended

\* the calls that change the store
Mutate ==
    \/ AddChannel
    \/ RemoveChannel
    \/ Close
    \/ AddData
    \/ RemoveData

\* A query leaves the store as it is, so the stores a client can reach are
\* those the mutating calls reach.  Each specification joins them with one
\* family of queries.

\* has_data, list_channels and get_latest_data of one channel
Next ==
    \/ Mutate
    \/ ListChannels
    \/ HasData
    \/ GetLatestData

Spec == Init /\ [][Next]_vars

\* get_data of one channel
NextQuery ==
    \/ Mutate
    \/ GetData

SpecQuery == Init /\ [][NextQuery]_vars

\* get_data of one channel on a store no sample is removed from
NextAppend ==
    \/ AddChannel
    \/ RemoveChannel
    \/ Close
    \/ AddData
    \/ GetData

SpecAppend == Init /\ [][NextAppend]_vars

\* get_data and get_latest_data of a list of channels
NextList ==
    \/ Mutate
    \/ GetDataList
    \/ GetLatestDataList

SpecList == Init /\ [][NextList]_vars

----------------------------------------------------------------------------
\* What a caller holds after a query.  get_data returns a slice of the
\* channel's list: a new list of the same sample objects.  get_latest_data
\* returns the last sample object of the channel.  A sample object that the
\* caller changes is therefore changed in the channel as well, and so is the
\* object that was given to add_data.

\* the index (from 0) in the channel of the first sample of the slice returned
returned_from(chs, channel, start_time) ==
    IF start_time = None THEN 0
    ELSE find_start(dict_item(chs, channel), start_time[1], 0).start

\* list l with the timestamp of its sample at index k (from 1) set to t
set_timestamp(l, k, t) == [l EXCEPT ![k] = <<t, l[k][2]>>]

\* the caller of get_data appends to the list returned
ReturnedAppend ==
    /\ op = "get_data"
    /\ exc = ""
    /\ \E data \in Samples :
          Record("returned.append(data)", <<data>>, Return(channels, Append(ret, data)))
    /\ UNCHANGED appended
    /\ UNCHANGED lslVars

\* the caller of get_data sets the timestamp of a sample of the list returned
ReturnedOverwrite ==
    /\ op = "get_data"
    /\ exc = ""
    /\ \E j \in DOMAIN ret, t \in Times :
          LET channel == args[1]
              k == returned_from(channels, channel, args[2]) + j
          IN  /\ Record("returned[j][0] = t", <<j, t>>,
                        Return(dict_set(channels, channel,
                                        set_timestamp(dict_item(channels, channel), k, t)),
                               set_timestamp(ret, j, t)))
              /\ appended' = [appended EXCEPT ![channel] = set_timestamp(@, k, t)]
    /\ UNCHANGED lslVars

\* the caller of get_latest_data sets the timestamp of the sample returned
LatestOverwrite ==
    /\ op = "get_latest_data"
    /\ exc = ""
    /\ \E t \in Times :
          LET channel == args[1]
              k == Len(dict_item(channels, channel))
          IN  /\ Record("returned[0] = t", <<t>>,
                        Return(dict_set(channels, channel,
                                        set_timestamp(dict_item(channels, channel), k, t)),
                               <<t, ret[2]>>))
              /\ appended' = [appended EXCEPT ![channel] = set_timestamp(@, k, t)]
    /\ UNCHANGED lslVars

\* get_data and get_latest_data of one channel by a caller that changes what
\* it was returned
NextCopy ==
    \/ Mutate
    \/ GetData
    \/ GetLatestData
    \/ ReturnedAppend
    \/ ReturnedOverwrite
    \/ LatestOverwrite

SpecCopy == Init /\ [][NextCopy]_vars

----------------------------------------------------------------------------
\* DataStream: connection methods

\* the attributes of the DataStream that the connection methods use
Self == eeg

\* lsl_connect when look_for_eeg_stream finds a stream: the inlet and the
\* labels of its channels
lsl_connect(self) ==
    [self EXCEPT !.inlet = Some("inlet"), !.channel_names = Some(Advertised)]

\* lsl_start, tid being the thread it creates and starts
lsl_start(self, tid) ==
    [self EXCEPT !.thread_active = TRUE, !.thread = Some(tid)]

\* mutant: the flag is flipped
lsl_stop_toggle(self) ==
    [self EXCEPT !.thread_active = ~self.thread_active, !.thread = None]

lsl_stop(self) ==
    [self EXCEPT !.thread_active = FALSE, !.thread = None]

\* mutant: no channel is taken as missing
not_in_list_channels_never(chs, channel_name) == FALSE

\* channel_name not in self.list_channels()
not_in_list_channels(chs, channel_name) ==
    \A k \in DOMAIN list_channels(chs).ret : list_channels(chs).ret[k] # channel_name

\* mutant: the time correction is left out
pulled_data_uncorrected(timestamp, time_correction, samples, i) ==
    <<timestamp, samples[i + 1]>>

\* [timestamp + time_correction] + [samples[i]]
pulled_data(timestamp, time_correction, samples, i) ==
    <<timestamp + time_correction, samples[i + 1]>>

\* a thread at the start of _record_lsl_data_indefinitely.  pc is its
\* position, i the index of the loop it is in, and timestamp,
\* time_correction and samples are its local variables.  History: `found`
\* is the set of channels that held samples when the thread was started,
\* `stopped` tells
\* whether lsl_stop was called while it ran, and `late` counts its pulls
\* since then.
NewThread(chs) ==
    [pc |-> "create", i |-> 0, timestamp |-> 0, time_correction |-> 0,
     samples |-> <<>>, exc |-> "",
     found |-> {chs[k].key : k \in {j \in DOMAIN chs : chs[j].val # <<>>}},
     stopped |-> FALSE, late |-> 0]

Running(t) == t.pc \notin {"done", "crashed"}

\* the thread after one pass of a loop over list l: in the loop at pc `again`
\* for the next index, at the while statement after the last one.  The local
\* variables of a pull are not read again after its last sample.
next_pass(t, l, again) ==
    IF t.i + 1 < Len(l)
    THEN [t EXCEPT !.pc = again, !.i = t.i + 1]
    ELSE [t EXCEPT !.pc = "while", !.i = 0,
                   !.timestamp = 0, !.time_correction = 0, !.samples = <<>>]

\* the thread after an exception e that nothing catches
crash(t, e) == [t EXCEPT !.pc = "crashed", !.exc = e]

SetSelf(self) == eeg' = self

\* `raise (RuntimeError, msg)` raises a tuple: a TypeError
LslConnect ==
    \E found \in BOOLEAN :
        /\ IF found
           THEN Record("lsl_connect", <<>>, Return(channels, None))
                /\ SetSelf(lsl_connect(Self))
           ELSE Record("lsl_connect", <<>>, Raise(channels, "TypeError"))
                /\ UNCHANGED eeg
        /\ UNCHANGED <<appended, threads, pulls>>

LslStart ==
    /\ Len(threads) < MaxStarts
    /\ Record("lsl_start", <<>>, Return(channels, None))
    /\ SetSelf(lsl_start(Self, Len(threads) + 1))
    /\ threads' = Append(threads, NewThread(channels))
    /\ UNCHANGED <<appended, pulls>>

LslStop ==
    /\ Record("lsl_stop", <<>>, Return(channels, None))
    /\ SetSelf(lsl_stop(Self))
    /\ threads' = [k \in DOMAIN threads |->
                      IF Running(threads[k]) THEN [threads[k] EXCEPT !.stopped = TRUE]
                      ELSE threads[k]]
    /\ UNCHANGED <<appended, pulls>>

\* a step of thread tid that leaves the thread as t and has outcome o
Step(tid, t, o) ==
    /\ Record("_record_lsl_data_indefinitely", <<>>, o)
    /\ threads' = [threads EXCEPT ![tid] = t]
    /\ UNCHANGED eeg

\* for channel_name in self._eeg_channel_names:
\*     if channel_name not in self.list_channels():
ThreadCreate(tid) ==
    LET t == threads[tid] IN
    /\ t.pc = "create"
    /\ IF eeg_channel_names = None
       THEN Step(tid, crash(t, "TypeError"), Raise(channels, "TypeError"))
       ELSE LET names == eeg_channel_names[1]
                channel_name == names[t.i + 1]
            IN  IF not_in_list_channels(channels, channel_name)
                THEN Step(tid, [t EXCEPT !.pc = "add_channel"], Return(channels, None))
                ELSE Step(tid, next_pass(t, names, "create"), Return(channels, None))
    /\ UNCHANGED <<appended, pulls>>

\* add_channel, up to its test of self.channels.get(name)
ThreadAddChannel(tid) ==
    LET t == threads[tid]
        names == eeg_channel_names[1]
        o == add_channel(channels, names[t.i + 1])
    IN
    /\ t.pc = "add_channel"
    /\ IF o.printed # ""
       THEN Step(tid, next_pass(t, names, "create"), Report(channels, o.printed))
       ELSE Step(tid, [t EXCEPT !.pc = "set_channel"], Return(channels, None))
    /\ UNCHANGED <<appended, pulls>>

\* add_channel: self.channels[name] = []
ThreadSetChannel(tid) ==
    LET t == threads[tid]
        names == eeg_channel_names[1]
        name == names[t.i + 1]
    IN
    /\ t.pc = "set_channel"
    /\ Step(tid, next_pass(t, names, "create"),
            Return(dict_set(channels, name, <<>>), None))
    /\ appended' = [appended EXCEPT ![name] = <<>>]
    /\ UNCHANGED pulls

\* while self._eeg_thread_active:
ThreadWhile(tid) ==
    LET t == threads[tid] IN
    /\ t.pc = "while"
    /\ Step(tid, [t EXCEPT !.pc = IF eeg_thread_active THEN "pull" ELSE "done"],
            Return(channels, None))
    /\ UNCHANGED <<appended, pulls>>

\* the corrected timestamp of the last pull
last_corrected == pulls[Len(pulls)].timestamp + pulls[Len(pulls)].time_correction

\* samples, timestamp = self._eeg_inlet.pull_sample()
\* time_correction = self._eeg_inlet.time_correction()
\* The pull blocks while the stream has no sample.  The corrected timestamps
\* of the stream do not decrease.
ThreadPull(tid) ==
    LET t == threads[tid] IN
    /\ t.pc = "pull"
    /\ Len(pulls) < MaxPulls
    /\ \E timestamp \in Times, time_correction \in Corrections, samples \in PulledSamples :
          /\ pulls # <<>> => last_corrected <= timestamp + time_correction
          /\ Step(tid, [t EXCEPT !.pc = "add_data", !.i = 0,
                                 !.timestamp = timestamp,
                                 !.time_correction = time_correction,
                                 !.samples = samples,
                                 !.late = IF t.stopped THEN t.late + 1 ELSE t.late],
                  Return(channels, None))
          /\ pulls' = Append(pulls, [timestamp |-> timestamp,
                                     time_correction |-> time_correction,
                                     samples |-> samples])
    /\ UNCHANGED appended

\* add_data, up to its test of self.channels.get(channel)
ThreadAddData(tid) ==
    LET t == threads[tid]
        channel == eeg_channel_names[1][t.i + 1]
        data == pulled_data(t.timestamp, t.time_correction, t.samples, t.i)
        o == add_data(channels, channel, data)
    IN
    /\ t.pc = "add_data"
    /\ IF o.printed # ""
       THEN Step(tid, next_pass(t, t.samples, "add_data"), Report(channels, o.printed))
       ELSE Step(tid, [t EXCEPT !.pc = "append"], Return(channels, None))
    /\ UNCHANGED <<appended, pulls>>

\* add_data: self.channels[channel].append(data)
ThreadAppend(tid) ==
    LET t == threads[tid]
        channel == eeg_channel_names[1][t.i + 1]
        data == pulled_data(t.timestamp, t.time_correction, t.samples, t.i)
    IN
    /\ t.pc = "append"
    /\ IF dict_has(channels, channel)
       THEN /\ Step(tid, next_pass(t, t.samples, "add_data"),
                    Return(dict_set(channels, channel,
                                    Append(dict_item(channels, channel), data)), None))
            /\ appended' = [appended EXCEPT ![channel] = Append(@, data)]
       ELSE /\ Step(tid, crash(t, "KeyError"), Raise(channels, "KeyError"))
            /\ UNCHANGED appended
    /\ UNCHANGED pulls

\* a step of one of the threads
RecordLslData ==
    \E tid \in DOMAIN threads :
        \/ ThreadCreate(tid)
        \/ ThreadAddChannel(tid)
        \/ ThreadSetChannel(tid)
        \/ ThreadWhile(tid)
        \/ ThreadPull(tid)
        \/ ThreadAddData(tid)
        \/ ThreadAppend(tid)

\* the sessions of a client that leaves the store to the threads
NextIngest ==
    \/ LslConnect
    \/ LslStart
    \/ LslStop
    \/ RecordLslData

SpecIngest == Init /\ [][NextIngest]_vars

\* lsl_start by a client that starts one session only
LslStartOnce ==
    /\ threads = <<>>
    /\ LslStart

\* the single session of a client that leaves the store to the thread
NextSession ==
    \/ LslConnect
    \/ LslStartOnce
    \/ LslStop
    \/ RecordLslData

SpecSession == Init /\ [][NextSession]_vars

\* the single session of a client that removes channels as well
NextStream ==
    \/ LslConnect
    \/ LslStartOnce
    \/ LslStop
    \/ RecordLslData
    \/ RemoveChannel

SpecStream == Init /\ [][NextStream]_vars

\* the steps of the threads on a stream that delivers no sample: a pull blocks
RecordLslWaiting ==
    \E tid \in DOMAIN threads :
        \/ ThreadCreate(tid)
        \/ ThreadAddChannel(tid)
        \/ ThreadSetChannel(tid)
        \/ ThreadWhile(tid)

\* the sessions of a client that fills the store itself, on a stream that
\* delivers no sample
NextFill ==
    \/ LslConnect
    \/ LslStart
    \/ RecordLslWaiting
    \/ AddChannel
    \/ AddData

SpecFill == Init /\ [][NextFill]_vars

----------------------------------------------------------------------------
\* Properties

\* the timestamps of l do not decrease
Sorted(l) == \A i, j \in DOMAIN l : i < j => l[i][1] <= l[j][1]

\* the samples of l with s <= timestamp, in the order of l
FromTime(l, s) == SelectSeq(l, LAMBDA x : s <= x[1])

\* the samples of l with s <= timestamp < s + d, in the order of l
InRange(l, s, d) == SelectSeq(l, LAMBDA x : s <= x[1] /\ x[1] < s + d)

\* C1 - Append/Query round trip: on a store no sample is removed from, a
\* get_data(channel) with no start time and no duration on an existing channel
\* whose appended samples have non-decreasing timestamps returns exactly the
\* samples given to add_data since the channel was created, in append order.
RoundTrip ==
    (/\ op = "get_data"
     /\ args[2] = None
     /\ args[3] = None
     /\ dict_has(channels, args[1])
     /\ Sorted(appended[args[1]]))
    => (exc = "" /\ ret = appended[args[1]])

\* a full query returned three appended samples, two of them at one timestamp
RoundTripWitness ==
    /\ op = "get_data"
    /\ args[2] = None
    /\ args[3] = None
    /\ dict_has(channels, args[1])
    /\ Len(appended[args[1]]) = 3
    /\ Sorted(appended[args[1]])
    /\ appended[args[1]][1][1] = appended[args[1]][2][1]
    /\ appended[args[1]][2][1] < appended[args[1]][3][1]
    /\ exc = ""
    /\ ret = appended[args[1]]

\* C2 - Range correctness: on a non-empty channel with non-decreasing
\* timestamps, get_data(channel, s, d) returns exactly the samples with
\* s <= timestamp < s + d and get_data(channel, s) exactly those with
\* timestamp >= s, in append order.
RangeCorrectness ==
    (/\ op = "get_data"
     /\ args[2] # None
     /\ dict_has(before, args[1])
     /\ dict_item(before, args[1]) # <<>>
     /\ Sorted(dict_item(before, args[1])))
    => (/\ exc = ""
        /\ ret = IF args[3] = None
                 THEN FromTime(dict_item(before, args[1]), args[2][1])
                 ELSE InRange(dict_item(before, args[1]), args[2][1], args[3][1]))

\* get_data(channel, 1, 1) on timestamps 0, 1, 2 returned the sample at 1
RangeCorrectnessWitness ==
    /\ op = "get_data"
    /\ args[2] = Some(1)
    /\ args[3] = Some(1)
    /\ dict_has(before, args[1])
    /\ Len(dict_item(before, args[1])) = 3
    /\ \A i \in 1..3 : dict_item(before, args[1])[i][1] = i - 1
    /\ exc = ""
    /\ ret = <<dict_item(before, args[1])[2]>>

\* C3 - Empty-range behaviour: on a channel with at least one sample,
\* get_data with a start time greater than every stored timestamp, with or
\* without a duration, returns an empty sequence and raises nothing.
EmptyRange ==
    (/\ op = "get_data"
     /\ args[2] # None
     /\ dict_has(before, args[1])
     /\ dict_item(before, args[1]) # <<>>
     /\ \A i \in DOMAIN dict_item(before, args[1]) :
            dict_item(before, args[1])[i][1] < args[2][1])
    => (exc = "" /\ ret = <<>>)

\* a query past the last of two samples returned the empty sequence
EmptyRangeWitness ==
    /\ op = "get_data"
    /\ args[2] # None
    /\ dict_has(before, args[1])
    /\ Len(dict_item(before, args[1])) = 2
    /\ \A i \in DOMAIN dict_item(before, args[1]) :
           dict_item(before, args[1])[i][1] < args[2][1]
    /\ exc = ""
    /\ ret = <<>>

\* C4 - Missing channel on Query: get_data with the name of no channel, with
\* any start time and duration, raises the exception "A channel with name ...
\* does not exist" and leaves the store unchanged.
MissingChannelQuery ==
    (op = "get_data" /\ ~dict_has(before, args[1]))
    => (exc = "Exception" /\ channels = before)

\* a query of a missing channel raised while another channel held samples
MissingChannelQueryWitness ==
    /\ op = "get_data"
    /\ ~dict_has(before, args[1])
    /\ exc = "Exception"
    /\ \E n \in Names : dict_has(before, n) /\ dict_item(before, n) # <<>>

\* C5 - QueryMulti tolerance: get_data with a list of names of which at least
\* one is no channel does not abort: it returns a mapping with the query
\* result of every existing name of the list and an entry for every missing
\* name.
QueryMultiTolerance ==
    (/\ op = "get_data_list"
     /\ \E i \in DOMAIN args[1] : ~dict_has(before, args[1][i]))
    => (/\ exc = ""
        /\ \A i \in DOMAIN args[1] :
              /\ dict_has(ret, args[1][i])
              /\ dict_has(before, args[1][i])
                 => dict_item(ret, args[1][i])
                    = get_data_single(before, args[1][i], args[2], args[3]).ret)

Latest ==
    (op = "get_latest_data")
    => (/\ channels = before
        /\ IF ~dict_has(before, args[1])
           THEN exc = "KeyError"
           ELSE IF dict_item(before, args[1]) = <<>>
           THEN exc = "IndexError"
           ELSE /\ exc = ""
                /\ ret = dict_item(before, args[1])[Len(dict_item(before, args[1]))]
                /\ ret = appended[args[1]][Len(appended[args[1]])])

\* get_latest_data returned the last of several samples, which is not the first
LatestWitness ==
    /\ op = "get_latest_data"
    /\ exc = ""
    /\ dict_has(before, args[1])
    /\ Len(dict_item(before, args[1])) >= 2
    /\ ret = dict_item(before, args[1])[Len(dict_item(before, args[1]))]
    /\ ret # dict_item(before, args[1])[1]

\* C8 - HasData: has_data(name) returns true exactly when name is a channel
\* with a non-empty sequence, returns false without raising for a name that is
\* no channel, and never changes the store.
HasDataCorrect ==
    (op = "has_data")
    => (/\ exc = ""
        /\ ret = (dict_has(before, args[1]) /\ dict_item(before, args[1]) # <<>>)
        /\ channels = before)

\* has_data answered false for an existing channel without samples
HasDataWitness ==
    /\ op = "has_data"
    /\ ret = FALSE
    /\ dict_has(before, args[1])
    /\ dict_item(before, args[1]) = <<>>
    /\ \E n \in Names : dict_has(before, n) /\ dict_item(before, n) # <<>>

\* C9 - Duplicate channel add: add_channel(name) creates an empty channel for
\* a name that is no channel; for an existing name, with or without samples,
\* it raises nothing, prints that the channel exists and leaves the store
\* unchanged; every other channel keeps its samples in both cases.
DuplicateChannelAdd ==
    (op = "add_channel")
    => (/\ exc = ""
        /\ IF dict_has(before, args[1])
           THEN channels = before /\ printed = "already exists"
           ELSE /\ dict_get(channels, args[1]) = Some(<<>>)
                /\ \A n \in Names \ {args[1]} :
                       dict_get(channels, n) = dict_get(before, n))

\* add_channel on a channel that holds samples was reported and kept them
DuplicateChannelAddWitness ==
    /\ op = "add_channel"
    /\ printed = "already exists"
    /\ dict_has(before, args[1])
    /\ Len(dict_item(before, args[1])) >= 2
    /\ dict_get(channels, args[1]) = dict_get(before, args[1])

\* C10 - RemoveChannel: remove_channel(name) on an existing channel deletes it
\* with its data: name is no longer in list_channels, every get_data on it
\* raises the missing-channel exception, a later add_channel(name) yields an
\* empty channel, and every other channel is unchanged.  On a name that is no
\* channel it raises nothing and changes nothing.
RemoveChannelEffect ==
    (op = "remove_channel")
    => (/\ exc = ""
        /\ IF dict_has(before, args[1])
           THEN /\ \A i \in DOMAIN list_channels(channels).ret :
                       list_channels(channels).ret[i] # args[1]
                /\ \A s \in StartTimes, d \in Durations :
                       get_data_single(channels, args[1], s, d).exc = "Exception"
                /\ dict_get(add_channel(channels, args[1]).channels, args[1])
                       = Some(<<>>)
                /\ \A n \in Names \ {args[1]} :
                       dict_get(channels, n) = dict_get(before, n)
           ELSE channels = before /\ printed = "does not exist")

\* remove_channel deleted a channel with samples while the other one kept its own
RemoveChannelWitness ==
    /\ op = "remove_channel"
    /\ dict_has(before, args[1])
    /\ dict_item(before, args[1]) # <<>>
    /\ ~dict_has(channels, args[1])
    /\ \E n \in Names : dict_has(channels, n) /\ dict_item(channels, n) # <<>>

\* C11 - Single ingestion task: at most one ingestion thread runs for the
\* sessions that were not stopped, lsl_start on a streaming DataStream starting
\* no second one.
SingleIngestionTask ==
    \A j, k \in DOMAIN threads :
        (/\ Running(threads[j]) /\ ~threads[j].stopped
         /\ Running(threads[k]) /\ ~threads[k].stopped)
        => j = k

\* C12 - Eventual stop: a thread running when lsl_stop is called completes at
\* most one more pull, whatever is called after the stop.
EventualStop == \A k \in DOMAIN threads : threads[k].late <= 1

\* C13 - Idempotent stop: lsl_stop on a DataStream whose flag is already false
\* raises nothing, starts no thread, leaves the flag false and the store as it
\* is.
IdempotentStop ==
    [][(~eeg_thread_active /\ op' = "lsl_stop")
       => (/\ exc' = ""
           /\ ~eeg_thread_active'
           /\ eeg_thread' = None
           /\ Len(threads') = Len(threads)
           /\ channels' = channels)]_vars

\* lsl_stop was called before any lsl_start
IdempotentStopWitness ==
    /\ op = "lsl_stop"
    /\ threads = <<>>
    /\ ~eeg_thread_active

\* C14 - Removed channel does not halt ingestion: remove_channel of an
\* advertised channel during a session does not make the thread crash; the
\* thread goes on without that channel.
RemovedChannelSkipped ==
    \A k \in DOMAIN threads : threads[k].exc # "KeyError"

\* the channel of one name holds, pull after pull, the corrected timestamp and
\* the value of that channel
Ingested(i) ==
    [j \in DOMAIN pulls |->
        <<pulls[j].timestamp + pulls[j].time_correction, pulls[j].samples[i]>>]

\* C15 - End-to-end ingestion: after the only session of a DataStream, when
\* its thread has exited, get_data of each advertised channel returns one
\* sample per pull, in pull order, with the timestamp plus the time correction
\* of the pull and the value that the pull gave for that channel.
EndToEnd ==
    (Len(threads) = 1 /\ threads[1].pc = "done")
    => \A i \in DOMAIN Advertised :
           get_data_single(channels, Advertised[i], None, None)
               = Return(channels, Ingested(i))

\* the thread has exited after two pulls with different time corrections
EndToEndWitness ==
    /\ Len(threads) = 1
    /\ threads[1].pc = "done"
    /\ Len(pulls) = 2
    /\ pulls[1].timestamp < pulls[2].timestamp
    /\ pulls[1].time_correction # pulls[2].time_correction
    /\ \A i \in DOMAIN Advertised : Len(dict_item(channels, Advertised[i])) = 2

\* C16 - Query on an empty channel: get_data with a start time, with or
\* without a duration, on an existing channel that holds no sample returns the
\* empty list and raises nothing.
EmptyChannelQuery ==
    (/\ op = "get_data"
     /\ args[2] # None
     /\ dict_has(before, args[1])
     /\ dict_item(before, args[1]) = <<>>)
    => (exc = "" /\ ret = <<>>)

\* C17 - Per-channel timestamp order: while the samples come from the threads
\* only and the corrected timestamps of the stream do not decrease, the
\* timestamps of every channel do not decrease.
TimestampOrder == \A k \in DOMAIN channels : Sorted(channels[k].val)

\* C18 - Start creates missing channels only: the channel creation that
\* follows lsl_start leaves the channels that exist as they are, so that a
\* channel that held samples when lsl_start was called holds them afterwards.
StartKeepsSamples ==
    \A k \in DOMAIN threads : \A n \in threads[k].found :
        dict_has(channels, n) /\ dict_item(channels, n) # <<>>

\* C19 - Out-of-order data queried by full scan: whatever the order of the
\* timestamps of a channel that holds samples, get_data(channel, s, d) returns
\* exactly the samples with s <= timestamp < s + d and get_data(channel, s)
\* exactly those with timestamp >= s, in append order.
OutOfOrderQuery ==
    (/\ op = "get_data"
     /\ args[2] # None
     /\ dict_has(before, args[1])
     /\ dict_item(before, args[1]) # <<>>)
    => (/\ exc = ""
        /\ ret = IF args[3] = None
                 THEN FromTime(dict_item(before, args[1]), args[2][1])
                 ELSE InRange(dict_item(before, args[1]), args[2][1], args[3][1]))

\* C20 - Query results are defensive copies: whatever the caller does to what
\* get_data or get_latest_data returned, appending to the list or setting the
\* timestamp of a sample, the store stays as it is.
DefensiveCopies ==
    (op \in {"returned.append(data)", "returned[j][0] = t", "returned[0] = t"})
    => channels = before

====
